---- MODULE Spec2Model ----
(***************************************************************************)
(* Survey form builder: the permission, visibility, statistics and         *)
(* response-ingestion logic of surveys/views.py and surveys/serializers.py *)
(* over the tables of surveys/models.py.                                   *)
(*                                                                         *)
(* Every table is a function from the primary keys of the model to a row   *)
(* or NoRow.  One action is one HTTP request handled by a viewset; `req'   *)
(* records the request the last step served and the outcome it reported.   *)
(***************************************************************************)
EXTENDS Integers, Sequences, FiniteSets, TLC

VARIABLES surveys, questions, options, responses, answers, ing, req

vars == <<surveys, questions, options, responses, answers, ing, req>>

(***************************************************************************)
(* Bounds of the model.                                                    *)
(***************************************************************************)
MaxSurveys == 2
MaxQuestions == 2
MaxOptions == 1
MaxResponses == 2
MaxAnswers == 2
MaxHeaderLen == 4

(***************************************************************************)
(* Actors: request.user is the anonymous user or a row of auth.User.       *)
(***************************************************************************)
Anon == "anon"
Users == {"u1", "u2", "admin"}
Actors == Users \cup {Anon}

is_authenticated(user) == user \in Users
is_superuser(user) == user = "admin"

(***************************************************************************)
(* Primary keys and rows.                                                  *)
(***************************************************************************)
None == <<"none", 0>>
NoRow == [absent |-> TRUE]

SurveyIds == {<<"survey", i>> : i \in 1..MaxSurveys}
QuestionIds == {<<"question", i>> : i \in 1..MaxQuestions}
OptionIds == {<<"option", i>> : i \in 1..MaxOptions}
ResponseIds == {<<"response", i>> : i \in 1..MaxResponses}

Texts == {"t1", "t2"}
\* A value the serializer's validation rejects.
Invalid == "invalid"

Survey(creator, title, is_active) ==
    [creator |-> creator, title |-> title, is_active |-> is_active]
Question(survey, text) == [survey |-> survey, text |-> text]
QuestionOption(question, text) == [text |-> text, question |-> question]
Response(survey, respondent_email, ip_address) ==
    [survey |-> survey, respondent_email |-> respondent_email,
     ip_address |-> ip_address]
Answer(question, selected_options) ==
    [question |-> question, selected_options |-> selected_options]

Exists(table, id) == id \in DOMAIN table /\ table[id] # NoRow
Rows(table) == {id \in DOMAIN table : table[id] # NoRow}

(***************************************************************************)
(* The request log.                                                        *)
(***************************************************************************)
Request(kind, action, actor, target, outcome) ==
    [kind |-> kind, action |-> action, actor |-> actor, target |-> target,
     outcome |-> outcome]

SAFE_METHODS == {"GET", "HEAD", "OPTIONS"}

Method(action) ==
    CASE action \in {"list", "retrieve", "stats"} -> "GET"
      [] action = "create" -> "POST"
      [] action = "update" -> "PUT"
      [] action = "partial_update" -> "PATCH"
      [] action = "destroy" -> "DELETE"

WriteActions == {"update", "partial_update", "destroy"}

(***************************************************************************)
(* on_delete=CASCADE: the rows that go with a survey, a question, an       *)
(* option or a response.                                                   *)
(***************************************************************************)
QuestionsAfter(gone) ==
    [q \in QuestionIds |->
        IF Exists(questions, q) /\ questions[q].survey \in gone
        THEN NoRow ELSE questions[q]]

OptionsAfter(goneQuestions) ==
    [o \in OptionIds |->
        IF Exists(options, o) /\ options[o].question \in goneQuestions
        THEN NoRow ELSE options[o]]

ResponsesAfter(gone) ==
    [r \in ResponseIds |->
        IF Exists(responses, r) /\ responses[r].survey \in gone
        THEN NoRow ELSE responses[r]]

RECURSIVE AnswersLeft(_, _, _)
\* The answers of a response that are left, in order, once the questions
\* and options in the two sets are deleted: an answer goes with its question,
\* a deleted option leaves the selected_options of the answers that had it.
AnswersLeft(rows, goneQuestions, goneOptions) ==
    IF rows = <<>> THEN <<>>
    ELSE IF Head(rows).question \in goneQuestions
         THEN AnswersLeft(Tail(rows), goneQuestions, goneOptions)
         ELSE <<Answer(Head(rows).question,
                       Head(rows).selected_options \ goneOptions)>>
              \o AnswersLeft(Tail(rows), goneQuestions, goneOptions)

AnswersAfter(goneResponses, goneQuestions, goneOptions) ==
    [r \in ResponseIds |->
        IF r \in goneResponses THEN <<>>
        ELSE AnswersLeft(answers[r], goneQuestions, goneOptions)]

\* Survey.delete(): the survey, its questions, their options, its responses
\* and their answers.
DeleteSurvey(sid) ==
    LET goneQ == {q \in Rows(questions) : questions[q].survey = sid}
        goneO == {o \in Rows(options) : options[o].question \in goneQ}
        goneR == {r \in Rows(responses) : responses[r].survey = sid}
    IN  /\ surveys' = [surveys EXCEPT ![sid] = NoRow]
        /\ questions' = QuestionsAfter({sid})
        /\ options' = OptionsAfter(goneQ)
        /\ responses' = ResponsesAfter({sid})
        /\ answers' = AnswersAfter(goneR, goneQ, goneO)

(***************************************************************************)
(* rest_framework permission classes, as the viewsets use them.            *)
(***************************************************************************)
\* permissions.IsAuthenticated.has_permission / AllowAny.has_permission
has_permission(permission_classes, user) ==
    "IsAuthenticated" \in permission_classes => is_authenticated(user)

IsCreatorOrReadOnlyBroken(user, method, obj) ==
    \/ method \in SAFE_METHODS
    \/ obj.creator = user
    \/ is_superuser(user)

\* IsCreatorOrReadOnly.has_object_permission
IsCreatorOrReadOnly(user, method, obj) ==
    \/ method \in SAFE_METHODS
    \/ obj.creator = user

(***************************************************************************)
(* SurveyViewSet                                                           *)
(***************************************************************************)
SurveyGetPermissions(action) ==
    IF action = "list" \/ action = "retrieve"
    THEN {"AllowAny"}
    ELSE {"IsAuthenticated", "IsCreatorOrReadOnly"}

SurveyGetQuerysetBroken(user, action) ==
    IF action = "list"
    THEN {s \in Rows(surveys) : surveys[s].is_active}
    ELSE IF is_authenticated(user)
    THEN IF is_superuser(user)
         THEN Rows(surveys)
         ELSE IF action = "retrieve"
         THEN {s \in Rows(surveys) :
                  surveys[s].is_active \/ surveys[s].creator = user}
         ELSE {s \in Rows(surveys) : surveys[s].creator = user}
    ELSE Rows(surveys)

\* SurveyViewSet.get_queryset (the order_by is left out: a set of keys)
SurveyGetQueryset(user, action) ==
    IF action = "list"
    THEN {s \in Rows(surveys) : surveys[s].is_active}
    ELSE IF is_authenticated(user)
    THEN IF is_superuser(user)
         THEN Rows(surveys)
         ELSE IF action = "retrieve"
         THEN {s \in Rows(surveys) :
                  surveys[s].is_active \/ surveys[s].creator = user}
         ELSE {s \in Rows(surveys) : surveys[s].creator = user}
    ELSE {s \in Rows(surveys) : surveys[s].is_active}

\* What a detail route of SurveyViewSet reports before its handler's own
\* work: APIView.initial checks the permission classes, get_object looks
\* the key up in get_queryset() and then checks the object permissions.
SurveyGetObject(user, action, pk) ==
    IF ~has_permission(SurveyGetPermissions(action), user)
    THEN "not_authenticated"
    ELSE IF pk \notin SurveyGetQueryset(user, action)
    THEN "not_found"
    ELSE IF /\ "IsCreatorOrReadOnly" \in SurveyGetPermissions(action)
            /\ ~IsCreatorOrReadOnly(user, Method(action), surveys[pk])
    THEN "forbidden"
    ELSE "ok"

\* GET /surveys/
SurveyList(user) ==
    /\ req' = Request("survey", "list", user, None, "ok")
    /\ UNCHANGED <<surveys, questions, options, responses, answers, ing>>

\* GET /surveys/{pk}/
SurveyRetrieve(user, pk) ==
    /\ req' = Request("survey", "retrieve", user, pk,
                      SurveyGetObject(user, "retrieve", pk))
    /\ UNCHANGED <<surveys, questions, options, responses, answers, ing>>

\* POST /surveys/: SurveySerializer.create stamps the creator; the key is a
\* fresh uuid4.
SurveyCreate(user, title, is_active) ==
    IF ~has_permission(SurveyGetPermissions("create"), user)
    THEN /\ req' = Request("survey", "create", user, None, "not_authenticated")
         /\ UNCHANGED <<surveys, questions, options, responses, answers, ing>>
    ELSE \E pk \in SurveyIds \ Rows(surveys) :
            /\ surveys' = [surveys EXCEPT ![pk] = Survey(user, title, is_active)]
            /\ req' = Request("survey", "create", user, pk, "created")
            /\ UNCHANGED <<questions, options, responses, answers, ing>>

\* PUT and PATCH /surveys/{pk}/: creator is a read-only field of the
\* serializer, title and is_active are written.
SurveyUpdate(user, action, pk, title, is_active) ==
    LET outcome == SurveyGetObject(user, action, pk)
    IN  /\ req' = Request("survey", action, user, pk, outcome)
        /\ surveys' = IF outcome = "ok"
                      THEN [surveys EXCEPT ![pk] =
                              Survey(surveys[pk].creator, title, is_active)]
                      ELSE surveys
        /\ UNCHANGED <<questions, options, responses, answers, ing>>

\* DELETE /surveys/{pk}/
SurveyDestroy(user, pk) ==
    LET outcome == SurveyGetObject(user, "destroy", pk)
    IN  /\ req' = Request("survey", "destroy", user, pk, outcome)
        /\ IF outcome = "ok"
           THEN DeleteSurvey(pk)
           ELSE UNCHANGED <<surveys, questions, options, responses, answers>>
        /\ UNCHANGED ing

(***************************************************************************)
(* SurveyViewSet.stats                                                     *)
(***************************************************************************)
RECURSIVE Count(_, _)
\* How many of the answer rows are answers to the question.
Count(rows, question) ==
    IF rows = <<>> THEN 0
    ELSE (IF Head(rows).question = question THEN 1 ELSE 0)
         + Count(Tail(rows), question)

RECURSIVE AnswerCountUpTo(_, _, _)
\* Answer.objects.filter(question=question, response__survey=survey).count()
\* over the responses with keys 1..n.
AnswerCountUpTo(n, question, survey) ==
    IF n = 0 THEN 0
    ELSE (IF /\ Exists(responses, <<"response", n>>)
             /\ responses[<<"response", n>>].survey = survey
          THEN Count(answers[<<"response", n>>], question) ELSE 0)
         + AnswerCountUpTo(n - 1, question, survey)

AnswerCount(question, survey) ==
    AnswerCountUpTo(MaxResponses, question, survey)

\* Response.objects.filter(survey=survey).count()
ResponseCount(survey) ==
    Cardinality({r \in Rows(responses) : responses[r].survey = survey})

\* completion_rate, the exact value of (answer_count / response_count) * 100
\* as the fraction num / den.
CompletionRate(answer_count, response_count) ==
    IF response_count > 0
    THEN [num |-> answer_count * 100, den |-> response_count]
    ELSE [num |-> 0, den |-> 1]

\* The body of stats after its checks: total_responses and, per question of
\* the survey, answers and completion_rate.
ComputeStats(survey) ==
    [questions |->
        [q \in {x \in Rows(questions) : questions[x].survey = survey} |->
            [answers |-> AnswerCount(q, survey),
             completion_rate |->
                CompletionRate(AnswerCount(q, survey), ResponseCount(survey))]],
     total_responses |-> ResponseCount(survey)]

\* GET /surveys/{pk}/stats/: get_object, then the creator check of the body.
SurveyStatsOutcome(user, pk) ==
    LET found == SurveyGetObject(user, "stats", pk)
    IN  IF found # "ok" THEN found
        ELSE IF /\ is_authenticated(user)
                /\ surveys[pk].creator # user /\ ~is_superuser(user)
        THEN "forbidden"
        ELSE "ok"

SurveyStats(user, pk) ==
    /\ req' = Request("survey", "stats", user, pk, SurveyStatsOutcome(user, pk))
    /\ UNCHANGED <<surveys, questions, options, responses, answers, ing>>

(***************************************************************************)
(* QuestionViewSet                                                         *)
(***************************************************************************)
QuestionGetPermissions(action) ==
    IF action = "list" \/ action = "retrieve"
    THEN {"AllowAny"}
    ELSE {"IsAuthenticated"}

\* QuestionViewSet.get_queryset: survey_id is the query parameter or None.
QuestionGetQueryset(survey_id) ==
    IF survey_id # None
    THEN {q \in Rows(questions) : questions[q].survey = survey_id}
    ELSE Rows(questions)

QuestionGetObject(user, action, pk, survey_id) ==
    IF ~has_permission(QuestionGetPermissions(action), user)
    THEN "not_authenticated"
    ELSE IF pk \notin QuestionGetQueryset(survey_id)
    THEN "not_found"
    ELSE "ok"

QuestionCreateOutcomeUnordered(user, survey_id, text) ==
    IF ~has_permission(QuestionGetPermissions("create"), user)
    THEN "not_authenticated"
    ELSE IF text = Invalid
    THEN "validation_failed"
    ELSE IF survey_id = None
    THEN "field_required"
    ELSE IF ~Exists(surveys, survey_id)
    THEN "not_found"
    ELSE IF /\ is_authenticated(user)
            /\ surveys[survey_id].creator # user /\ ~is_superuser(user)
    THEN "forbidden"
    ELSE "created"

\* QuestionViewSet.create up to serializer.save: survey_id is
\* request.data.get('survey'), text stands for the serializer's fields.
QuestionCreateOutcome(user, survey_id, text) ==
    IF ~has_permission(QuestionGetPermissions("create"), user)
    THEN "not_authenticated"
    ELSE IF survey_id = None
    THEN "field_required"
    ELSE IF ~Exists(surveys, survey_id)
    THEN "not_found"
    ELSE IF /\ is_authenticated(user)
            /\ surveys[survey_id].creator # user /\ ~is_superuser(user)
    THEN "forbidden"
    ELSE IF text = Invalid
    THEN "validation_failed"
    ELSE "created"

\* POST /questions/
QuestionCreate(user, survey_id, text) ==
    LET outcome == QuestionCreateOutcome(user, survey_id, text)
    IN  IF outcome = "created"
        THEN \E pk \in QuestionIds \ Rows(questions) :
                /\ questions' = [questions EXCEPT ![pk] = Question(survey_id, text)]
                /\ req' = Request("question", "create", user, survey_id, outcome)
                /\ UNCHANGED <<surveys, options, responses, answers, ing>>
        ELSE /\ req' = Request("question", "create", user, survey_id, outcome)
             /\ UNCHANGED <<surveys, questions, options, responses, answers, ing>>

\* GET /questions/{pk}/
QuestionRetrieve(user, pk, survey_id) ==
    /\ req' = Request("question", "retrieve", user, pk,
                      QuestionGetObject(user, "retrieve", pk, survey_id))
    /\ UNCHANGED <<surveys, questions, options, responses, answers, ing>>

\* PUT and PATCH /questions/{pk}/: survey is a read-only field of the
\* serializer.
QuestionUpdate(user, action, pk, survey_id, text) ==
    LET outcome == QuestionGetObject(user, action, pk, survey_id)
    IN  /\ req' = Request("question", action, user, pk, outcome)
        /\ questions' = IF outcome = "ok"
                        THEN [questions EXCEPT ![pk] =
                                Question(questions[pk].survey, text)]
                        ELSE questions
        /\ UNCHANGED <<surveys, options, responses, answers, ing>>

\* Question.delete(): the question, its options and the answers to it.
DeleteQuestion(pk) ==
    LET goneO == {o \in Rows(options) : options[o].question = pk}
    IN  /\ questions' = [questions EXCEPT ![pk] = NoRow]
        /\ options' = OptionsAfter({pk})
        /\ answers' = AnswersAfter({}, {pk}, goneO)

\* DELETE /questions/{pk}/
QuestionDestroy(user, pk, survey_id) ==
    LET outcome == QuestionGetObject(user, "destroy", pk, survey_id)
    IN  /\ req' = Request("question", "destroy", user, pk, outcome)
        /\ IF outcome = "ok"
           THEN DeleteQuestion(pk)
           ELSE UNCHANGED <<questions, options, answers>>
        /\ UNCHANGED <<surveys, responses, ing>>

(***************************************************************************)
(* QuestionOptionViewSet                                                   *)
(***************************************************************************)
OptionGetPermissions(action) ==
    IF action = "list" \/ action = "retrieve"
    THEN {"AllowAny"}
    ELSE {"IsAuthenticated"}

\* QuestionOptionViewSet.get_queryset
OptionGetQueryset(question_id) ==
    IF question_id # None
    THEN {o \in Rows(options) : options[o].question = question_id}
    ELSE Rows(options)

OptionGetObject(user, action, pk, question_id) ==
    IF ~has_permission(OptionGetPermissions(action), user)
    THEN "not_authenticated"
    ELSE IF pk \notin OptionGetQueryset(question_id)
    THEN "not_found"
    ELSE "ok"

\* QuestionOptionViewSet.create up to serializer.save
OptionCreateOutcome(user, question_id, text) ==
    IF ~has_permission(OptionGetPermissions("create"), user)
    THEN "not_authenticated"
    ELSE IF question_id = None
    THEN "field_required"
    ELSE IF ~Exists(questions, question_id)
    THEN "not_found"
    ELSE IF /\ is_authenticated(user)
            /\ surveys[questions[question_id].survey].creator # user
            /\ ~is_superuser(user)
    THEN "forbidden"
    ELSE IF text = Invalid
    THEN "validation_failed"
    ELSE "created"

\* POST /options/
OptionCreate(user, question_id, text) ==
    LET outcome == OptionCreateOutcome(user, question_id, text)
    IN  IF outcome = "created"
        THEN \E pk \in OptionIds \ Rows(options) :
                /\ options' = [options EXCEPT ![pk] = QuestionOption(question_id, text)]
                /\ req' = Request("option", "create", user, question_id, outcome)
                /\ UNCHANGED <<surveys, questions, responses, answers, ing>>
        ELSE /\ req' = Request("option", "create", user, question_id, outcome)
             /\ UNCHANGED <<surveys, questions, options, responses, answers, ing>>

\* PUT and PATCH /options/{pk}/: question is not a field of the serializer.
OptionUpdate(user, action, pk, question_id, text) ==
    LET outcome == OptionGetObject(user, action, pk, question_id)
    IN  /\ req' = Request("option", action, user, pk, outcome)
        /\ options' = IF outcome = "ok"
                      THEN [options EXCEPT ![pk] =
                              QuestionOption(options[pk].question, text)]
                      ELSE options
        /\ UNCHANGED <<surveys, questions, responses, answers, ing>>

\* DELETE /options/{pk}/
OptionDestroy(user, pk, question_id) ==
    LET outcome == OptionGetObject(user, "destroy", pk, question_id)
    IN  /\ req' = Request("option", "destroy", user, pk, outcome)
        /\ IF outcome = "ok"
           THEN /\ options' = [options EXCEPT ![pk] = NoRow]
                /\ answers' = AnswersAfter({}, {}, {pk})
           ELSE UNCHANGED <<options, answers>>
        /\ UNCHANGED <<surveys, questions, responses, ing>>

(***************************************************************************)
(* ResponseViewSet                                                         *)
(***************************************************************************)
ResponseGetPermissions(action) ==
    IF action = "create" THEN {"AllowAny"} ELSE {"IsAuthenticated"}

ResponseGetQuerysetBroken(user, survey_id) ==
    IF ~is_authenticated(user)
    THEN [rows |-> {}, status |-> "ok"]
    ELSE IF survey_id # None
    THEN IF ~Exists(surveys, survey_id)
         THEN [rows |-> {}, status |-> "not_found"]
         ELSE [rows |-> {r \in Rows(responses) : responses[r].survey = survey_id},
               status |-> "ok"]
    ELSE IF is_superuser(user)
    THEN [rows |-> Rows(responses), status |-> "ok"]
    ELSE [rows |-> {r \in Rows(responses) :
                        surveys[responses[r].survey].creator = user},
          status |-> "ok"]

\* ResponseViewSet.get_queryset: survey_id is the query parameter or None;
\* status is not_found when get_object_or_404 raises.
ResponseGetQueryset(user, survey_id) ==
    IF ~is_authenticated(user)
    THEN [rows |-> {}, status |-> "ok"]
    ELSE IF survey_id # None
    THEN IF ~Exists(surveys, survey_id)
         THEN [rows |-> {}, status |-> "not_found"]
         ELSE IF user # surveys[survey_id].creator /\ ~is_superuser(user)
         THEN [rows |-> {}, status |-> "ok"]
         ELSE [rows |-> {r \in Rows(responses) : responses[r].survey = survey_id},
               status |-> "ok"]
    ELSE IF is_superuser(user)
    THEN [rows |-> Rows(responses), status |-> "ok"]
    ELSE [rows |-> {r \in Rows(responses) :
                        surveys[responses[r].survey].creator = user},
          status |-> "ok"]

\* GET /responses/
ResponseListOutcome(user, survey_id) ==
    IF ~has_permission(ResponseGetPermissions("list"), user)
    THEN "not_authenticated"
    ELSE ResponseGetQueryset(user, survey_id).status

ResponseGetObject(user, action, pk, survey_id) ==
    IF ~has_permission(ResponseGetPermissions(action), user)
    THEN "not_authenticated"
    ELSE IF ResponseGetQueryset(user, survey_id).status # "ok"
    THEN "not_found"
    ELSE IF pk \notin ResponseGetQueryset(user, survey_id).rows
    THEN "not_found"
    ELSE "ok"

ResponseList(user, survey_id) ==
    /\ req' = Request("response", "list", user, survey_id,
                      ResponseListOutcome(user, survey_id))
    /\ UNCHANGED <<surveys, questions, options, responses, answers, ing>>

\* GET /responses/{pk}/
ResponseRetrieve(user, pk, survey_id) ==
    /\ req' = Request("response", "retrieve", user, pk,
                      ResponseGetObject(user, "retrieve", pk, survey_id))
    /\ UNCHANGED <<surveys, questions, options, responses, answers, ing>>

\* Whether the fields of data that the serializer was given are valid:
\* survey an existing key, respondent_email an email, answers absent here.
ValidFields(data) ==
    /\ "survey" \in DOMAIN data => Exists(surveys, data.survey)
    /\ "respondent_email" \in DOMAIN data => data.respondent_email # Invalid

\* PUT and PATCH /responses/{pk}/ (ModelViewSet): data holds the fields the
\* client sent.  PUT requires answers; ModelSerializer.update refuses a
\* nested answers with an assertion error.
ResponseUpdateOutcome(user, action, pk, survey_id, data) ==
    LET found == ResponseGetObject(user, action, pk, survey_id)
    IN  IF found # "ok" THEN found
        ELSE IF action = "update"
                /\ {"survey", "answers"} \ DOMAIN data # {}
        THEN "validation_failed"
        ELSE IF ~ValidFields(data)
        THEN "validation_failed"
        ELSE IF "answers" \in DOMAIN data
        THEN "server_error"
        ELSE "ok"

ResponseUpdate(user, action, pk, survey_id, data) ==
    LET outcome == ResponseUpdateOutcome(user, action, pk, survey_id, data)
    IN  /\ req' = Request("response", action, user, pk, outcome)
        /\ responses' =
            IF outcome = "ok"
            THEN [responses EXCEPT ![pk] =
                    Response(IF "survey" \in DOMAIN data
                             THEN data.survey ELSE responses[pk].survey,
                             IF "respondent_email" \in DOMAIN data
                             THEN data.respondent_email
                             ELSE responses[pk].respondent_email,
                             responses[pk].ip_address)]
            ELSE responses
        /\ UNCHANGED <<surveys, questions, options, answers, ing>>

\* DELETE /responses/{pk}/ (ModelViewSet): the response and its answers.
ResponseDestroy(user, pk, survey_id) ==
    LET outcome == ResponseGetObject(user, "destroy", pk, survey_id)
    IN  /\ req' = Request("response", "destroy", user, pk, outcome)
        /\ IF outcome = "ok"
           THEN /\ responses' = [responses EXCEPT ![pk] = NoRow]
                /\ answers' = AnswersAfter({pk}, {}, {})
           ELSE UNCHANGED <<responses, answers>>
        /\ UNCHANGED <<surveys, questions, options, ing>>

(***************************************************************************)
(* ResponseViewSet.create and ResponseSerializer.create                    *)
(*                                                                         *)
(* A string is a sequence of characters.  META is request.META: a function *)
(* whose domain holds HTTP_X_FORWARDED_FOR only when the header was sent.  *)
(***************************************************************************)
Comma == ","

RECURSIVE FirstToken(_)
\* x_forwarded_for.split(',')[0]
FirstToken(str) ==
    IF str = <<>> \/ Head(str) = Comma THEN <<>>
    ELSE <<Head(str)>> \o FirstToken(Tail(str))

\* The client address of ResponseViewSet.create; an empty header is falsy.
GetClientIp(META) ==
    IF "HTTP_X_FORWARDED_FOR" \in DOMAIN META
          /\ META["HTTP_X_FORWARDED_FOR"] # <<>>
    THEN FirstToken(META["HTTP_X_FORWARDED_FOR"])
    ELSE META["REMOTE_ADDR"]

WithIpAddressBroken(data, ip) ==
    [f \in DOMAIN data \cup {"ip_address"} |->
        IF f = "ip_address" /\ f \notin DOMAIN data THEN ip ELSE data[f]]

\* request.data['ip_address'] = ip
WithIpAddress(data, ip) ==
    [f \in DOMAIN data \cup {"ip_address"} |->
        IF f = "ip_address" THEN ip ELSE data[f]]

\* serializer.is_valid for a POST: survey an existing key, respondent_email
\* an email when given, ip_address not blank, and every answer with an
\* existing question and existing options.
IsValid(data) ==
    /\ "survey" \in DOMAIN data /\ Exists(surveys, data.survey)
    /\ data.respondent_email # Invalid
    /\ data.ip_address # <<>>
    /\ \A i \in DOMAIN data.answers :
        /\ Exists(questions, data.answers[i].question)
        /\ \A o \in data.answers[i].selected_options : Exists(options, o)

RECURSIVE AnswerRows(_)
\* The answer rows that ResponseSerializer.create makes of answers_data.
AnswerRows(answers_data) ==
    IF answers_data = <<>> THEN <<>>
    ELSE <<Answer(Head(answers_data).question,
                  Head(answers_data).selected_options)>>
         \o AnswerRows(Tail(answers_data))

\* POST /responses/ served alone: the address is written over the client's,
\* the data validated, the response and its answers created.
ResponseCreate(user, META, data) ==
    LET injected == WithIpAddress(data, GetClientIp(META))
        log(outcome) ==
            [kind |-> "response", action |-> "create", actor |-> user,
             target |-> None, outcome |-> outcome, data |-> data, META |-> META]
    IN  IF ~IsValid(injected)
        THEN /\ req' = log("validation_failed")
             /\ UNCHANGED <<surveys, questions, options, responses, answers, ing>>
        ELSE \E pk \in ResponseIds \ Rows(responses) :
                /\ responses' = [responses EXCEPT ![pk] =
                        Response(injected.survey, injected.respondent_email,
                                 injected.ip_address)]
                /\ answers' = [answers EXCEPT ![pk] = AnswerRows(injected.answers)]
                /\ req' = [log("created") EXCEPT !.target = pk]
                /\ UNCHANGED <<surveys, questions, options, ing>>

(***************************************************************************)
(* POST /responses/ served while other requests are served: the database   *)
(* runs in autocommit, so the validation, each objects.create and each     *)
(* selected_options.set is a step other requests can come between.  ing    *)
(* holds the request in flight: its validated data, the key of its         *)
(* response and the index i of the answer it is at.                        *)
(***************************************************************************)
\* No POST /responses/ in flight.
Idle == [pc |-> "idle"]

IngestLog(outcome) ==
    [kind |-> "response", action |-> "create", actor |-> ing.user,
     target |-> ing.pk, outcome |-> outcome]

\* ResponseViewSet.create up to serializer.is_valid
IngestStart(user, META, data) ==
    LET injected == WithIpAddress(data, GetClientIp(META))
    IN  /\ ing.pc = "idle"
        /\ IF ~IsValid(injected)
           THEN /\ req' = Request("response", "create", user, None,
                                  "validation_failed")
                /\ UNCHANGED ing
           ELSE /\ ing' = [answers |-> injected.answers, user |-> user,
                           i |-> 1,
                           survey |-> injected.survey,
                           respondent_email |-> injected.respondent_email,
                           ip_address |-> injected.ip_address,
                           pk |-> None, pc |-> "create_response"]
                /\ UNCHANGED req
        /\ UNCHANGED <<surveys, questions, options, responses, answers>>

\* response = Response.objects.create(**validated_data): an integrity error
\* when the survey is gone by now.
IngestCreateResponse ==
    /\ ing.pc = "create_response"
    /\ IF ~Exists(surveys, ing.survey)
       THEN /\ req' = IngestLog("server_error")
            /\ ing' = Idle
            /\ UNCHANGED <<responses, answers>>
       ELSE \E pk \in ResponseIds \ Rows(responses) :
                /\ responses' = [responses EXCEPT ![pk] =
                        Response(ing.survey, ing.respondent_email, ing.ip_address)]
                /\ answers' = [answers EXCEPT ![pk] = <<>>]
                /\ IF ing.answers = <<>>
                   THEN /\ req' = [IngestLog("created") EXCEPT !.target = pk]
                        /\ ing' = Idle
                   ELSE /\ ing' = [ing EXCEPT !.pc = "create_answer", !.pk = pk]
                        /\ UNCHANGED req
    /\ UNCHANGED <<surveys, questions, options>>

\* answer = Answer.objects.create(response=response, **answer_data): an
\* integrity error when the response or the question is gone by now, and
\* the rows created so far stay.
IngestCreateAnswer ==
    /\ ing.pc = "create_answer"
    /\ IF \/ ~Exists(responses, ing.pk)
          \/ ~Exists(questions, ing.answers[ing.i].question)
       THEN /\ req' = IngestLog("server_error")
            /\ ing' = Idle
            /\ UNCHANGED answers
       ELSE /\ answers' = [answers EXCEPT ![ing.pk] =
                    Append(@, Answer(ing.answers[ing.i].question, {}))]
            /\ ing' = [ing EXCEPT !.pc = "set_options"]
            /\ UNCHANGED req
    /\ UNCHANGED <<surveys, questions, options, responses>>

\* answer.selected_options.set(selected_options), then the next answer or
\* the end of the loop: an integrity error when the answer, with its
\* response or its question, or one of the options is gone by now.
IngestSetOptions ==
    /\ ing.pc = "set_options"
    /\ IF \/ ~Exists(responses, ing.pk)
          \/ ~Exists(questions, ing.answers[ing.i].question)
          \/ \E o \in ing.answers[ing.i].selected_options : ~Exists(options, o)
       THEN /\ req' = IngestLog("server_error")
            /\ ing' = Idle
            /\ UNCHANGED answers
       ELSE /\ answers' = [answers EXCEPT ![ing.pk] =
                    [@ EXCEPT ![Len(@)] =
                        Answer(ing.answers[ing.i].question,
                               ing.answers[ing.i].selected_options)]]
            /\ IF ing.i = Len(ing.answers)
               THEN /\ req' = IngestLog("created")
                    /\ ing' = Idle
               ELSE /\ ing' = [ing EXCEPT !.pc = "create_answer", !.i = @ + 1]
                    /\ UNCHANGED req
    /\ UNCHANGED <<surveys, questions, options, responses>>

(***************************************************************************)
(* Specifications.  Init is the empty database; each specification serves *)
(* the requests of one group of routes.                                    *)
(***************************************************************************)
InitEmpty ==
    /\ surveys = [s \in SurveyIds |-> NoRow]
    /\ questions = [q \in QuestionIds |-> NoRow]
    /\ options = [o \in OptionIds |-> NoRow]
    /\ responses = [r \in ResponseIds |-> NoRow]
    /\ answers = [r \in ResponseIds |-> <<>>]
    /\ ing = Idle
    /\ req = Request("none", "none", Anon, None, "none")

Init == InitEmpty

\* The routes of SurveyViewSet.
Next ==
    \E user \in Actors :
        \/ SurveyList(user)
        \/ \E title \in Texts, is_active \in BOOLEAN :
                SurveyCreate(user, title, is_active)
        \/ \E pk \in SurveyIds :
            \/ SurveyRetrieve(user, pk)
            \/ SurveyStats(user, pk)
            \/ SurveyDestroy(user, pk)
            \/ \E action \in {"update", "partial_update"},
                  title \in Texts, is_active \in BOOLEAN :
                    SurveyUpdate(user, action, pk, title, is_active)

Spec == Init /\ [][Next]_vars

\* Surveys that earlier requests of SurveyViewSet left behind.
InitQuestion ==
    /\ surveys \in [SurveyIds -> {NoRow} \cup {Survey(c, "t1", TRUE) : c \in {"u1", "u2"}}]
    /\ questions = [q \in QuestionIds |-> NoRow]
    /\ options = [o \in OptionIds |-> NoRow]
    /\ responses = [r \in ResponseIds |-> NoRow]
    /\ answers = [r \in ResponseIds |-> <<>>]
    /\ ing = Idle
    /\ req = Request("none", "none", Anon, None, "none")

\* The routes of QuestionViewSet and QuestionOptionViewSet, and the deletion
\* of a survey under them.
NextQuestion ==
    \E user \in Actors :
        \/ \E survey_id \in SurveyIds \cup {None}, text \in {"t1", Invalid} :
                QuestionCreate(user, survey_id, text)
        \/ \E question_id \in QuestionIds \cup {None}, text \in {"t1", Invalid} :
                OptionCreate(user, question_id, text)
        \/ \E pk \in QuestionIds, survey_id \in SurveyIds \cup {None} :
            \/ QuestionRetrieve(user, pk, survey_id)
            \/ QuestionDestroy(user, pk, survey_id)
            \/ \E action \in {"update", "partial_update"} :
                    QuestionUpdate(user, action, pk, survey_id, "t2")
        \/ \E pk \in OptionIds, question_id \in QuestionIds \cup {None} :
            \/ OptionDestroy(user, pk, question_id)
            \/ \E action \in {"update", "partial_update"} :
                    OptionUpdate(user, action, pk, question_id, "t2")
        \/ \E pk \in SurveyIds : SurveyDestroy(user, pk)

SpecQuestion == InitQuestion /\ [][NextQuestion]_vars

\* One survey, of u1.
InitOneSurvey ==
    /\ surveys = [s \in SurveyIds |->
                    IF s = <<"survey", 1>> THEN Survey("u1", "t1", TRUE) ELSE NoRow]
    /\ questions = [q \in QuestionIds |-> NoRow]
    /\ options = [o \in OptionIds |-> NoRow]
    /\ responses = [r \in ResponseIds |-> NoRow]
    /\ answers = [r \in ResponseIds |-> <<>>]
    /\ ing = Idle
    /\ req = Request("none", "none", Anon, None, "none")

\* The create routes of QuestionViewSet and QuestionOptionViewSet.
NextCreate ==
    \E user \in Actors :
        \/ \E survey_id \in SurveyIds \cup {None}, text \in {"t1", Invalid} :
                QuestionCreate(user, survey_id, text)
        \/ \E question_id \in QuestionIds \cup {None}, text \in {"t1", Invalid} :
                OptionCreate(user, question_id, text)

SpecCreate == InitOneSurvey /\ [][NextCreate]_vars

\* Surveys of two creators, left behind by earlier requests.
InitResponse ==
    /\ surveys \in [SurveyIds -> {Survey(c, "t1", TRUE) : c \in {"u1", "u2"}}]
    /\ questions = [q \in QuestionIds |-> NoRow]
    /\ options = [o \in OptionIds |-> NoRow]
    /\ responses = [r \in ResponseIds |-> NoRow]
    /\ answers = [r \in ResponseIds |-> <<>>]
    /\ ing = Idle
    /\ req = Request("none", "none", Anon, None, "none")

\* Responses without answers are submitted and read, surveys deleted.
NextResponse ==
    \E user \in Actors :
        \/ \E survey \in SurveyIds, email \in {"e1", Invalid} :
                ResponseCreate(user, [REMOTE_ADDR |-> <<"1">>],
                               [answers |-> <<>>, survey |-> survey,
                                respondent_email |-> email])
        \/ \E survey_id \in SurveyIds \cup {None} :
            \/ ResponseList(user, survey_id)
            \/ \E pk \in ResponseIds : ResponseRetrieve(user, pk, survey_id)
        \/ \E pk \in SurveyIds : SurveyDestroy(user, pk)

SpecResponse == InitResponse /\ [][NextResponse]_vars

\* Responses without answers are submitted, updated and deleted, surveys
\* deleted.
NextEdit ==
    \E user \in Actors :
        \/ \E survey \in SurveyIds :
                ResponseCreate(user, [REMOTE_ADDR |-> <<"1">>],
                               [answers |-> <<>>, survey |-> survey,
                                respondent_email |-> "e1"])
        \/ \E pk \in ResponseIds, survey_id \in SurveyIds \cup {None} :
            \/ ResponseDestroy(user, pk, survey_id)
            \/ \E data \in {[respondent_email |-> "e2"], [answers |-> <<>>]} :
                    ResponseUpdate(user, "partial_update", pk, survey_id, data)
            \/ \E data \in {[respondent_email |-> "e2"]}
                        \cup {[answers |-> <<>>, survey |-> s] : s \in SurveyIds} :
                    ResponseUpdate(user, "update", pk, survey_id, data)
        \/ \E pk \in SurveyIds : SurveyDestroy(user, pk)

SpecEdit == InitResponse /\ [][NextEdit]_vars

\* The answers a client can send: up to MaxAnswers entries.
AnswerEntries == [question : QuestionIds, selected_options : SUBSET OptionIds]
AnswersData == UNION {[1..n -> AnswerEntries] : n \in 0..MaxAnswers}

\* Surveys of u1, with question i in survey i and option i on question i
\* (counted round), left behind by earlier requests.
InitStats ==
    /\ surveys = [s \in SurveyIds |-> Survey("u1", "t1", TRUE)]
    /\ questions = [q \in QuestionIds |->
                        Question(<<"survey", ((q[2] - 1) % MaxSurveys) + 1>>, "t1")]
    /\ options = [o \in OptionIds |->
                        QuestionOption(<<"question", ((o[2] - 1) % MaxQuestions) + 1>>,
                                       "t1")]
    /\ responses = [r \in ResponseIds |-> NoRow]
    /\ answers = [r \in ResponseIds |-> <<>>]
    /\ ing = Idle
    /\ req = Request("none", "none", Anon, None, "none")

\* Respondents submit responses with answers; users ask for statistics and
\* delete questions.
NextStats ==
    \/ \E survey \in SurveyIds, answers_data \in AnswersData :
            ResponseCreate(Anon, [REMOTE_ADDR |-> <<"9">>],
                           [answers |-> answers_data, survey |-> survey,
                            respondent_email |-> "e1"])
    \/ \E user \in Users :
        \/ \E pk \in SurveyIds : SurveyStats(user, pk)
        \/ \E pk \in QuestionIds : QuestionDestroy(user, pk, None)

SpecStats == InitStats /\ [][NextStats]_vars

\* One response is submitted while a user deletes questions, options and
\* surveys.
NextIngest ==
    \/ \E survey \in SurveyIds, answers_data \in AnswersData :
            IngestStart(Anon, [REMOTE_ADDR |-> <<"9">>],
                        [answers |-> answers_data, survey |-> survey,
                         respondent_email |-> "e1"])
    \/ IngestCreateResponse
    \/ IngestCreateAnswer
    \/ IngestSetOptions
    \/ \E pk \in QuestionIds : QuestionDestroy("u1", pk, None)
    \/ \E pk \in OptionIds : OptionDestroy("u1", pk, None)
    \/ \E pk \in SurveyIds : SurveyDestroy("u1", pk)

\* One survey with every question and option.
InitIngest ==
    /\ surveys = [s \in SurveyIds |->
                    IF s = <<"survey", 1>> THEN Survey("u1", "t1", TRUE) ELSE NoRow]
    /\ questions = [q \in QuestionIds |-> Question(<<"survey", 1>>, "t1")]
    /\ options = [o \in OptionIds |-> QuestionOption(<<"question", 1>>, "t1")]
    /\ responses = [r \in ResponseIds |-> NoRow]
    /\ answers = [r \in ResponseIds |-> <<>>]
    /\ ing = Idle
    /\ req = Request("none", "none", Anon, None, "none")

SpecIngest == InitIngest /\ [][NextIngest]_vars

\* The strings a client can send as X-Forwarded-For, and the environments
\* of a request: the header sent or not, the peer address always there.
Strings(n) == UNION {[1..k -> {"1", Comma}] : k \in 0..n}
Metas ==
    {[REMOTE_ADDR |-> <<"9">>]}
    \cup {[REMOTE_ADDR |-> <<"9">>, HTTP_X_FORWARDED_FOR |-> h] :
            h \in Strings(MaxHeaderLen)}

\* Respondents submit responses through any chain of proxies, with or
\* without an ip_address of their own in the payload; the creator deletes
\* responses.
NextAddress ==
    \/ \E META \in Metas :
        \/ ResponseCreate(Anon, META,
                          [answers |-> <<>>, survey |-> <<"survey", 1>>,
                           respondent_email |-> "e1"])
        \/ ResponseCreate(Anon, META,
                          [answers |-> <<>>, survey |-> <<"survey", 1>>,
                           respondent_email |-> "e1", ip_address |-> <<"7">>])
    \/ \E pk \in ResponseIds : ResponseDestroy("u1", pk, None)

SpecAddress == InitOneSurvey /\ [][NextAddress]_vars

(***************************************************************************)
(* Properties.                                                             *)
(***************************************************************************)
MayWrite(user, survey) ==
    is_authenticated(user) /\ (survey.creator = user \/ is_superuser(user))

\* C1: a survey is in the set resolved for retrieve by an actor iff it is
\* active, or the actor is authenticated and its creator, or the actor is an
\* authenticated superuser; a retrieve request finds the survey exactly
\* then, so an anonymous actor never sees an inactive survey.
C1_RetrieveVisibility ==
    /\ \A A \in Actors, S \in Rows(surveys) :
        S \in SurveyGetQueryset(A, "retrieve")
            <=> \/ surveys[S].is_active
                \/ is_authenticated(A) /\ surveys[S].creator = A
                \/ is_authenticated(A) /\ is_superuser(A)
    /\ (req.kind = "survey" /\ req.action = "retrieve"
            /\ Exists(surveys, req.target))
        => (req.outcome = "ok"
              <=> \/ surveys[req.target].is_active
                  \/ MayWrite(req.actor, surveys[req.target]))

C1_Witness ==
    /\ req.kind = "survey" /\ req.action = "retrieve"
    /\ req.actor = Anon /\ req.outcome = "not_found"
    /\ Exists(surveys, req.target) /\ ~surveys[req.target].is_active
    /\ \E S \in Rows(surveys) : ~surveys[S].is_active /\ surveys[S].creator = "u1"
                                /\ S \in SurveyGetQueryset("u1", "retrieve")
                                /\ S \in SurveyGetQueryset("admin", "retrieve")
                                /\ S \notin SurveyGetQueryset("u2", "retrieve")

\* C2 as stated: a write action (update, partial-update, delete) on a survey
\* is allowed iff the actor is authenticated and is its creator or a
\* superuser, and a refused write leaves the surveys unchanged.
C2_Original ==
    [][(req'.kind = "survey" /\ req'.action \in WriteActions
            /\ Exists(surveys, req'.target))
        => /\ req'.outcome = "ok"
                <=> MayWrite(req'.actor, surveys[req'.target])
           /\ req'.outcome # "ok" => surveys' = surveys]_vars

\* C2 amended: a write action on a survey is allowed iff the actor is
\* authenticated and is the survey's creator; a superuser who is not the
\* creator is refused (forbidden), and a refused write leaves every table
\* unchanged.
C2_CreatorOnlyWrite ==
    [][(req'.kind = "survey" /\ req'.action \in WriteActions
            /\ Exists(surveys, req'.target))
        => LET A == req'.actor
               S == surveys[req'.target]
           IN  /\ req'.outcome = "ok"
                    <=> (is_authenticated(A) /\ S.creator = A)
               /\ (is_superuser(A) /\ S.creator # A)
                    => req'.outcome = "forbidden"
               /\ req'.outcome # "ok"
                    => UNCHANGED <<surveys, questions, options, responses, answers>>]_vars

C2_Witness ==
    /\ req.kind = "survey" /\ req.action = "destroy"
    /\ req.actor = "admin" /\ req.outcome = "forbidden"
    /\ Exists(surveys, req.target) /\ surveys[req.target].creator = "u1"

\* C6: stats requested by an actor who is neither the survey's creator nor a
\* superuser is refused as forbidden (the refusal of an unauthenticated
\* request by the permission classes counts as forbidden), never as not
\* found; statistics go only to the creator or a superuser.
C6_Original ==
    (req.kind = "survey" /\ req.action = "stats" /\ Exists(surveys, req.target))
        => LET A == req.actor
               S == surveys[req.target]
           IN  /\ ~(S.creator = A \/ is_superuser(A))
                    => req.outcome \in {"forbidden", "not_authenticated"}
               /\ req.outcome = "ok" => (S.creator = A \/ is_superuser(A))

\* The survey that owns a question, or an option, in the tables given.
SurveyOfQuestion(qs, q) == qs[q].survey
SurveyOfOption(os, qs, o) == qs[os[o].question].survey

\* C3 as stated: every creation, modification and deletion of a question or
\* an option is the act of the creator of the owning survey or of a
\* superuser.
C3_Original ==
    [][/\ \A q \in QuestionIds :
            questions'[q] # questions[q]
                => LET owner == IF Exists(questions, q)
                                THEN SurveyOfQuestion(questions, q)
                                ELSE SurveyOfQuestion(questions', q)
                   IN  MayWrite(req'.actor, surveys[owner])
       /\ \A o \in OptionIds :
            options'[o] # options[o]
                => LET owner == IF Exists(options, o)
                                THEN SurveyOfOption(options, questions, o)
                                ELSE SurveyOfOption(options', questions, o)
                   IN  MayWrite(req'.actor, surveys[owner])]_vars

\* The three creation-time checks in their order, for the parent reference
\* given; refusals by the permission classes count as forbidden.
CreateChecks(actor, missing, exists, creator, outcome) ==
    /\ missing => outcome = "field_required"
    /\ (~missing /\ ~exists) => outcome = "not_found"
    /\ (~missing /\ exists /\ ~(creator = actor \/ is_superuser(actor)))
            => outcome \in {"forbidden", "not_authenticated"}

CreatorOfQuestion(q) ==
    IF Exists(questions, q) THEN surveys[questions[q].survey].creator ELSE Anon
CreatorOfSurvey(s) ==
    IF Exists(surveys, s) THEN surveys[s].creator ELSE Anon

Refusals == {"field_required", "not_found", "forbidden", "not_authenticated"}

\* C7 as stated: creating a question reports FieldRequired when the survey
\* field is missing (whoever the actor), else NotFound when the survey does
\* not exist, else Forbidden when the actor is neither the creator nor a
\* superuser, and creates nothing in the three cases; the same for options.
C7_Original ==
    [][/\ (req'.kind = "question" /\ req'.action = "create")
            => /\ CreateChecks(req'.actor, req'.target = None,
                               Exists(surveys, req'.target),
                               CreatorOfSurvey(req'.target), req'.outcome)
               /\ req'.outcome \in Refusals => questions' = questions
       /\ (req'.kind = "option" /\ req'.action = "create")
            => /\ CreateChecks(req'.actor, req'.target = None,
                               Exists(questions, req'.target),
                               CreatorOfQuestion(req'.target), req'.outcome)
               /\ req'.outcome \in Refusals => options' = options]_vars

\* C7 amended: for an authenticated actor the checks run in the order
\* presence, existence, ownership (FieldRequired, NotFound, Forbidden) and a
\* refused creation creates nothing, for questions and for options; an
\* unauthenticated actor is refused by the permission classes before any of
\* the three checks, whatever the fields hold.
C7_CheckOrder ==
    [][/\ (req'.kind = "question" /\ req'.action = "create")
            => /\ is_authenticated(req'.actor)
                    => CreateChecks(req'.actor, req'.target = None,
                                    Exists(surveys, req'.target),
                                    CreatorOfSurvey(req'.target), req'.outcome)
               /\ ~is_authenticated(req'.actor)
                    => req'.outcome = "not_authenticated"
               /\ req'.outcome \in Refusals => questions' = questions
       /\ (req'.kind = "option" /\ req'.action = "create")
            => /\ is_authenticated(req'.actor)
                    => CreateChecks(req'.actor, req'.target = None,
                                    Exists(questions, req'.target),
                                    CreatorOfQuestion(req'.target), req'.outcome)
               /\ ~is_authenticated(req'.actor)
                    => req'.outcome = "not_authenticated"
               /\ req'.outcome \in Refusals => options' = options]_vars

C7_Witness ==
    /\ req.kind = "question" /\ req.action = "create"
    /\ req.actor = "u2" /\ req.target = None
    /\ req.outcome = "field_required"
    /\ Rows(surveys) # {}
    /\ \A s \in Rows(surveys) : surveys[s].creator = "u1"

\* C4 as stated: no update, partial update or delete of a response, by any
\* actor, changes a field of the response or removes it; a response goes
\* only with its survey.
C4_Original ==
    [][\A r \in ResponseIds :
        Exists(responses, r)
            => \/ responses'[r] = responses[r]
               \/ /\ responses'[r] = NoRow
                  /\ ~Exists(surveys', responses[r].survey)]_vars

\* C5: the responses an actor resolves, with or without survey_id, are
\* responses to surveys the actor created, unless the actor is a superuser;
\* an unauthenticated actor resolves none, and an authenticated actor who
\* is no superuser resolves none for a survey_id of another creator's survey.
C5_ResponseVisibility ==
    /\ \A A \in Actors, survey_id \in SurveyIds \cup {None} :
        LET qs == ResponseGetQueryset(A, survey_id)
        IN  /\ \A r \in qs.rows :
                 /\ Exists(responses, r)
                 /\ is_superuser(A) \/ surveys[responses[r].survey].creator = A
            /\ ~is_authenticated(A) => qs.rows = {}
            /\ (/\ is_authenticated(A) /\ ~is_superuser(A)
                /\ Exists(surveys, survey_id)
                /\ surveys[survey_id].creator # A) => qs.rows = {}
    /\ (/\ req.kind = "response" /\ req.action = "retrieve"
        /\ req.outcome = "ok")
        => /\ Exists(responses, req.target)
           /\ \/ is_superuser(req.actor)
              \/ surveys[responses[req.target].survey].creator = req.actor

C5_Witness ==
    /\ req.kind = "response" /\ req.action = "list"
    /\ req.actor = "u2" /\ req.outcome = "ok"
    /\ Exists(surveys, req.target) /\ surveys[req.target].creator = "u1"
    /\ ResponseGetQueryset("u2", req.target).rows = {}
    /\ ResponseGetQueryset("u1", req.target).rows # {}
    /\ ResponseGetQueryset("u2", None).rows # {}

\* C8 as stated: for every survey and every question of it, stats gives
\* completion_rate 0 when there are no responses and otherwise
\* answers / total_responses * 100, and the rate lies between 0 and 100:
\* answers never exceeds total_responses.
C8_Original ==
    \A s \in Rows(surveys) :
        LET stats == ComputeStats(s)
        IN  \A q \in DOMAIN stats.questions :
                LET e == stats.questions[q]
                IN  /\ stats.total_responses = 0 => e.completion_rate.num = 0
                    /\ stats.total_responses > 0
                        => e.completion_rate.num * stats.total_responses
                              = e.answers * 100 * e.completion_rate.den
                    /\ e.completion_rate.den > 0
                    /\ 0 <= e.completion_rate.num
                    /\ e.completion_rate.num <= 100 * e.completion_rate.den
                    /\ e.answers <= stats.total_responses

\* C9 as stated: an ingestion that fails, at validation or part-way while
\* the rows it refers to are deleted, leaves no row of its own: no orphan
\* response.
C9_Original ==
    (/\ req.kind = "response" /\ req.action = "create"
     /\ req.outcome \in {"validation_failed", "server_error"})
        => ~Exists(responses, req.target)

\* t is the first comma-separated token of the string h.
IsFirstTokenOf(t, h) ==
    /\ Len(t) <= Len(h)
    /\ \A i \in 1..Len(t) : t[i] = h[i] /\ t[i] # Comma
    /\ Len(t) < Len(h) => h[Len(t) + 1] = Comma

\* C10 as stated: a successful ingestion stores as ip_address the first
\* token of X-Forwarded-For when the header is present and the peer address
\* otherwise, whatever ip_address the payload holds.
C10_Original ==
    [][(req'.kind = "response" /\ req'.action = "create"
            /\ req'.outcome = "created")
        => LET stored == responses'[req'.target].ip_address
               META == req'.META
           IN  IF "HTTP_X_FORWARDED_FOR" \in DOMAIN META
               THEN IsFirstTokenOf(stored, META["HTTP_X_FORWARDED_FOR"])
               ELSE stored = META["REMOTE_ADDR"]]_vars

\* C10 amended: a successful ingestion stores as ip_address the first token
\* of X-Forwarded-For when the header is present and not empty, and the
\* peer address otherwise (an empty header counts as absent), whatever
\* ip_address the payload holds.
C10_DerivedAddress ==
    [][(req'.kind = "response" /\ req'.action = "create"
            /\ req'.outcome = "created")
        => LET stored == responses'[req'.target].ip_address
               META == req'.META
           IN  /\ ~Exists(responses, req'.target)
               /\ IF "HTTP_X_FORWARDED_FOR" \in DOMAIN META
                        /\ META["HTTP_X_FORWARDED_FOR"] # <<>>
                  THEN IsFirstTokenOf(stored, META["HTTP_X_FORWARDED_FOR"])
                  ELSE stored = META["REMOTE_ADDR"]]_vars

C10_Witness ==
    /\ req.kind = "response" /\ req.action = "create"
    /\ req.outcome = "created"
    /\ "HTTP_X_FORWARDED_FOR" \in DOMAIN req.META
    /\ req.META["HTTP_X_FORWARDED_FOR"] = <<"1", Comma, "1", "1">>
    /\ "ip_address" \in DOMAIN req.data /\ req.data.ip_address = <<"7">>
    /\ responses[req.target].ip_address = <<"1">>

====
